---- MODULE Spec2Model ----
(***************************************************************************)
(* Model of br2_vision/data_structure/tracking_data.py: the FlowQueue      *)
(* record, the TrackingData store, its context-manager lifecycle, the      *)
(* record table and the trajectory datasets of the HDF5 container.         *)
(*                                                                         *)
(* One container path is modelled.  Store objects are numbered; object 1   *)
(* is built by the constructor, object 2 by initialize / load.  Records    *)
(* are values; a caller's reference to a record of a store is modelled by  *)
(* SetAttr acting on a position of the store's list.  A label is the       *)
(* sequence of its character codes, a tag the pair (z_index, label), an    *)
(* h5 directory the triple (camera, z_index, label): the f-strings of      *)
(* get_tag and h5_directory are injective on these.  Python's None is the  *)
(* empty sequence and a given value v the sequence <<v>>.                  *)
(***************************************************************************)
EXTENDS Integers, Sequences, FiniteSets, TLC

\* ------------------------------------------------------------ bounds

MaxFrame == 2
MaxQueue == 2
MaxDepth == 2

\* ------------------------------------------------- program constants

\* ("label", "S10"): the width of the label column of the record table
LabelWidth == 10

\* ------------------------------------------------------------ domains

Min(a, b) == IF a < b THEN a ELSE b

Max(a, b) == IF a < b THEN b ELSE a

Stores == {1, 2}

Frames == 0 .. MaxFrame

Points == {<<1, 1>>, <<5, 5>>}

Cameras == {0, 1}

ZIndices == {0, 1}

\* "m0"
ShortLabel == <<109, 48>>

\* "marker_long": eleven characters, one more than the label column holds
LongLabel == <<109, 97, 114, 107, 101, 114, 95, 108, 111, 110, 103>>

Labels == {ShortLabel, LongLabel}

Markers == {"mpA", "mpB"}

None == <<>>

Some(v) == <<v>>

Sentinel == <<-1, -1>>

\* ------------------------------------------------------------ FlowQueue

\* the dataclass constructor; init is a ghost field: the identity fields as
\* they were given at construction
FlowQueue(point, start_frame, end_frame, camera, z_index, label, done) ==
    [point |-> point, start_frame |-> start_frame, end_frame |-> end_frame,
     camera |-> camera, z_index |-> z_index, label |-> label, done |-> done,
     init |-> <<point, camera, z_index, label>>]

Identity(q) == <<q.point, q.camera, q.z_index, q.label>>

StaticVariables == {"point", "camera", "z_index", "label"}

MutableVariables == {"start_frame", "end_frame", "done"}

EqMutant(a, b) ==
    /\ a.point = b.point
    /\ a.start_frame = b.start_frame
    /\ a.end_frame = b.end_frame
    /\ a.camera = b.camera
    /\ a.z_index = b.z_index
    /\ a.label = b.label
    /\ a.done = b.done

\* FlowQueue.__eq__: done is not compared
Eq(a, b) ==
    /\ a.point[1] = b.point[1]
    /\ a.point[2] = b.point[2]
    /\ a.start_frame = b.start_frame
    /\ a.end_frame = b.end_frame
    /\ a.camera = b.camera
    /\ a.z_index = b.z_index
    /\ a.label = b.label

RECURSIVE Digits(_)
\* the decimal digits of n >= 0, as character codes
Digits(n) == IF n < 10 THEN <<48 + n>> ELSE Digits(n \div 10) \o <<48 + (n % 10)>>

\* an int in an f-string: str(n)
Str(n) == IF n < 0 THEN <<45>> \o Digits(0 - n) ELSE Digits(n)

\* f"/trajectory/camera_{camera}/z_{z_index}/label_{label}"
PathOf(camera, z_index, label) ==
    <<47, 116, 114, 97, 106, 101, 99, 116, 111, 114, 121,
      47, 99, 97, 109, 101, 114, 97, 95>> \o Str(camera)
    \o <<47, 122, 95>> \o Str(z_index)
    \o <<47, 108, 97, 98, 101, 108, 95>> \o label

\* f"z{z_index}-{label}"
TagOf(z_index, label) == <<122>> \o Str(z_index) \o <<45>> \o label

H5DirectoryMutant(q) == PathOf(q.camera, q.z_index, q.label \o Str(q.point[1]))

\* FlowQueue.h5_directory
H5Directory(q) == PathOf(q.camera, q.z_index, q.label)

\* FlowQueue.get_tag
GetTag(q) == TagOf(q.z_index, q.label)

\* ------------------------------------------- record table row <-> record

\* a str stored in an S10 column: cut to the column width, padded with NUL
PadLabel(label) ==
    [i \in 1 .. LabelWidth |-> IF i <= Len(label) THEN label[i] ELSE 0]

RECURSIVE StripNul(_)
\* the bytes read back from an S10 column: trailing NULs are dropped
StripNul(bytes) ==
    IF Len(bytes) > 0 /\ bytes[Len(bytes)] = 0
    THEN StripNul(SubSeq(bytes, 1, Len(bytes) - 1))
    ELSE bytes

\* FlowQueue.__array__: one row of FlowQueue.dtype
ToRow(q) ==
    [point |-> q.point, start_frame |-> q.start_frame, end_frame |-> q.end_frame,
     camera |-> q.camera, z_index |-> q.z_index, label |-> PadLabel(q.label),
     done |-> q.done]

\* load: FlowQueue(*vals) of one row
FromRow(row) ==
    FlowQueue(row.point, row.start_frame, row.end_frame, row.camera,
              row.z_index, StripNul(row.label), row.done)

\* a row of a dataset created without data: HDF5 fills it with zeros
ZeroRow ==
    [point |-> <<0, 0>>, start_frame |-> 0, end_frame |-> 0, camera |-> 0,
     z_index |-> 0, label |-> [i \in 1 .. LabelWidth |-> 0], done |-> FALSE]

\* ------------------------------------------------------------ state

VARIABLES
    live,        \* live[s]: store object s has been constructed
    queues,      \* queues[s]: TrackingData.queues
    inside,      \* inside[s]: TrackingData._inside_context
    marker,      \* marker[s]: TrackingData.marker_positions
    depth,       \* depth[s]: ghost, with-blocks of s entered and not yet left
    fileExists,  \* os.path.exists(path)
    table,       \* the "queues" dataset of the container
    fileMarker,  \* the marker positions stored in the container
    groups,      \* the h5 directories that exist as groups
    dsets,       \* dsets[p]: the rows of the "xy" dataset of directory p, for
                 \* the directories p that hold one
    last,        \* ghost: the last call, its arguments, its fault and result
    pre          \* ghost: the state the last call started from

vars == <<live, queues, inside, marker, depth, fileExists, table, fileMarker,
          groups, dsets, last, pre>>

Snapshot ==
    [queues |-> queues, inside |-> inside, live |-> live, marker |-> marker,
     depth |-> depth, fileExists |-> fileExists, table |-> table,
     fileMarker |-> fileMarker, groups |-> groups, dsets |-> dsets]

Call(op, s, arg, fault, ret) ==
    [op |-> op, store |-> s, arg |-> arg, fault |-> fault, ret |-> ret]

NoFault == "none"

LifecycleFault == "Exception: outside context"

StoreUnchanged == UNCHANGED <<live, queues, inside, marker, depth>>

FileUnchanged == UNCHANGED <<fileExists, table, fileMarker, groups, dsets>>

\* TrackingData(path, marker_positions) has run for object 1; no container yet
Init ==
    /\ live = [s \in Stores |-> s = 1]
    /\ queues = [s \in Stores |-> <<>>]
    /\ inside = [s \in Stores |-> FALSE]
    /\ marker = [s \in Stores |-> "mpA"]
    /\ depth = [s \in Stores |-> 0]
    /\ fileExists = FALSE
    /\ table = <<>>
    /\ fileMarker = None
    /\ groups = {}
    /\ dsets = <<>>
    /\ last = Call("init", 1, <<>>, NoFault, <<>>)
    /\ pre = Snapshot

InsideContextMutant(s) == inside[s] \/ fileExists

\* raise_if_outside_context: the wrapped method runs only inside the context
InsideContext(s) == inside[s]

\* a guarded method called outside the context: it raises and nothing changes
Refused(op, s, arg) ==
    /\ ~InsideContext(s)
    /\ last' = Call(op, s, arg, LifecycleFault, <<>>)
    /\ pre' = Snapshot
    /\ StoreUnchanged
    /\ FileUnchanged

\* ------------------------------------------------------------ lifecycle

\* create_template: h5py.File(path, "w") truncates the container, the "queues"
\* dataset is created with one row and no data, the marker positions are saved
TemplateFile(s) ==
    [fileExists |-> TRUE, table |-> <<ZeroRow>>, fileMarker |-> Some(marker[s]),
     groups |-> {}, dsets |-> <<>>]

WriteFile(f) ==
    /\ fileExists' = f.fileExists
    /\ table' = f.table
    /\ fileMarker' = f.fileMarker
    /\ groups' = f.groups
    /\ dsets' = f.dsets

\* TrackingData.create_template, called by the user
CreateTemplate(s) ==
    /\ live[s]
    /\ \/ Refused("create_template", s, <<>>)
       \/ /\ InsideContext(s)
          /\ WriteFile(TemplateFile(s))
          /\ StoreUnchanged
          /\ last' = Call("create_template", s, <<>>, NoFault, <<>>)
          /\ pre' = Snapshot

EnterFlagMutant(s) == [inside EXCEPT ![s] = ~inside[s]]

\* __enter__, line 327: the flag is set, whatever it was
EnterFlag(s) == [inside EXCEPT ![s] = TRUE]

\* TrackingData.__enter__
Enter(s) ==
    /\ live[s]
    /\ depth[s] < MaxDepth
    /\ inside' = EnterFlag(s)
    /\ depth' = [depth EXCEPT ![s] = @ + 1]
    /\ IF ~fileExists THEN WriteFile(TemplateFile(s)) ELSE FileUnchanged
    /\ UNCHANGED <<live, queues, marker>>
    /\ last' = Call("enter", s, <<>>, NoFault, <<>>)
    /\ pre' = Snapshot

FlushMutant(qs) == [i \in 1 .. Len(qs) |-> ToRow(qs[Len(qs) + 1 - i])]

\* __exit__, lines 338-340: resize to len(queues), then row idx = np.array(q)
Flush(qs) == [i \in 1 .. Len(qs) |-> ToRow(qs[i])]

\* TrackingData.__exit__: reached only from a with-block that was entered
Exit(s) ==
    /\ live[s]
    /\ depth[s] > 0
    /\ fileExists
    /\ table' = Flush(queues[s])
    /\ inside' = [inside EXCEPT ![s] = FALSE]
    /\ depth' = [depth EXCEPT ![s] = @ - 1]
    /\ UNCHANGED <<live, queues, marker, fileExists, fileMarker, groups, dsets>>
    /\ last' = Call("exit", s, <<>>, NoFault, <<>>)
    /\ pre' = Snapshot

LoadQueuesMutant(tbl) == [i \in 1 .. Len(tbl) |-> FromRow(tbl[Len(tbl) + 1 - i])]

\* load, lines 294-300: one FlowQueue per row, in row order
LoadQueues(tbl) == [i \in 1 .. Len(tbl) |-> FromRow(tbl[i])]

\* MarkerPositions.from_h5(path): the marker positions stored in the container
FromH5 == fileMarker[1]

\* the store object a classmethod returns becomes object 2; the object it
\* replaces is dropped, which the model allows when no with-block of it is open
NewStore(qs, mp) ==
    /\ depth[2] = 0
    /\ live' = [live EXCEPT ![2] = TRUE]
    /\ queues' = [queues EXCEPT ![2] = qs]
    /\ inside' = [inside EXCEPT ![2] = FALSE]
    /\ marker' = [marker EXCEPT ![2] = mp]
    /\ UNCHANGED depth

\* TrackingData.load(path)
Load ==
    /\ IF fileExists
       THEN /\ NewStore(LoadQueues(table), FromH5)
            /\ last' = Call("load", 2, <<>>, NoFault, LoadQueues(table))
       ELSE /\ StoreUnchanged
            /\ last' = Call("load", 2, <<>>, "AssertionError", <<>>)
    /\ FileUnchanged
    /\ pre' = Snapshot

\* TrackingData.initialize(path, marker_positions)
Initialize(mp) ==
    /\ IF fileExists
       THEN /\ NewStore(LoadQueues(table), FromH5)
            /\ last' = Call("initialize", 2, mp, NoFault, LoadQueues(table))
       ELSE /\ NewStore(<<>>, mp)
            /\ last' = Call("initialize", 2, mp, NoFault, <<>>)
    /\ FileUnchanged
    /\ pre' = Snapshot

\* ------------------------------------------------------------ the list

\* list.index(value): the first position holding a record equal to value, or 0
IndexOf(qs, r) ==
    IF \E i \in 1 .. Len(qs) : Eq(qs[i], r)
    THEN CHOOSE i \in 1 .. Len(qs) :
            /\ Eq(qs[i], r)
            /\ \A j \in 1 .. i - 1 : ~Eq(qs[j], r)
    ELSE 0

UpsertMutant(qs, r) == Append(qs, r)

\* append, lines 346-350
Upsert(qs, r) ==
    IF IndexOf(qs, r) # 0
    THEN [qs EXCEPT ![IndexOf(qs, r)] = r]
    ELSE Append(qs, r)

\* TrackingData.append; the list holds at most MaxQueue records in the model
AppendQueue(s, r) ==
    /\ live[s]
    /\ \/ Refused("append", s, r)
       \/ /\ InsideContext(s)
          /\ Len(Upsert(queues[s], r)) <= MaxQueue
          /\ queues' = [queues EXCEPT ![s] = Upsert(queues[s], r)]
          /\ UNCHANGED <<live, inside, marker, depth>>
          /\ FileUnchanged
          /\ last' = Call("append", s, r, NoFault, <<>>)
          /\ pre' = Snapshot

AllDoneOfMutant(qs) == \E i \in 1 .. Len(qs) : qs[i].done

\* all_done, lines 145-147
AllDoneOf(qs) ==
    IF Len(qs) = 0 THEN TRUE ELSE \A i \in 1 .. Len(qs) : qs[i].done

\* TrackingData.all_done
AllDone(s) ==
    /\ live[s]
    /\ \/ Refused("all_done", s, <<>>)
       \/ /\ InsideContext(s)
          /\ StoreUnchanged
          /\ FileUnchanged
          /\ last' = Call("all_done", s, <<>>, NoFault, AllDoneOf(queues[s]))
          /\ pre' = Snapshot

RECURSIVE SortedSeq(_)
\* sorted(set): the members in increasing order
SortedSeq(S) ==
    IF S = {} THEN <<>>
    ELSE LET m == CHOOSE x \in S : \A y \in S : x <= y
         IN <<m>> \o SortedSeq(S \ {m})

\* iter_cameras, lines 152-154
CamerasOf(qs) == SortedSeq({qs[i].camera : i \in 1 .. Len(qs)})

\* TrackingData.iter_cameras
IterCameras(s) ==
    /\ live[s]
    /\ \/ Refused("iter_cameras", s, <<>>)
       \/ /\ InsideContext(s)
          /\ StoreUnchanged
          /\ FileUnchanged
          /\ last' = Call("iter_cameras", s, <<>>, NoFault, CamerasOf(queues[s]))
          /\ pre' = Snapshot

KeepsMutant(q, camera, start_frame, force_run_all, tag) ==
    /\ camera = None \/ q.camera = camera[1]
    /\ start_frame = None \/ q.start_frame = start_frame[1]
    /\ tag = None \/ GetTag(q) = tag[1]
    /\ ~q.done

\* get_flow_queues, lines 362-371: the record passes every filter
Keeps(q, camera, start_frame, force_run_all, tag) ==
    /\ ~(camera # None /\ q.camera # camera[1])
    /\ ~(start_frame # None /\ q.start_frame # start_frame[1])
    /\ ~(tag # None /\ GetTag(q) # tag[1])
    /\ ~(q.done /\ ~force_run_all)

RECURSIVE Filter(_, _, _, _, _)
\* get_flow_queues, lines 359-373: ret in list order
Filter(qs, camera, start_frame, force_run_all, tag) ==
    IF qs = <<>> THEN <<>>
    ELSE (IF Keeps(Head(qs), camera, start_frame, force_run_all, tag)
          THEN <<Head(qs)>> ELSE <<>>)
         \o Filter(Tail(qs), camera, start_frame, force_run_all, tag)

\* TrackingData.get_flow_queues
GetFlowQueues(s, camera, start_frame, force_run_all, tag) ==
    LET arg == [camera |-> camera, start_frame |-> start_frame,
                force_run_all |-> force_run_all, tag |-> tag]
    IN /\ live[s]
       /\ \/ Refused("get_flow_queues", s, arg)
          \/ /\ InsideContext(s)
             /\ StoreUnchanged
             /\ FileUnchanged
             /\ last' = Call("get_flow_queues", s, arg, NoFault,
                             Filter(queues[s], camera, start_frame,
                                    force_run_all, tag))
             /\ pre' = Snapshot

\* ------------------------------------------------------------ trajectories

\* the part of the container the trajectory methods read and write
Traj(g, d) == [groups |-> g, dsets |-> d]

Outcome(f, fault) == [groups |-> f.groups, dsets |-> f.dsets, fault |-> fault]

\* prefix in grp
HasDataset(f, p) == p \in DOMAIN f.dsets

\* the datasets d with the rows of directory p replaced, or created
PutDataset(d, p, rows) ==
    [x \in DOMAIN d \cup {p} |-> IF x = p THEN rows ELSE d[x]]

\* np.full(shape, -1): a new dataset of the given length
NewDataset(size) == [i \in 1 .. size |-> Sentinel]

\* a[start:stop] of an array of n rows, as the 1-based positions it selects
SliceRows(n, start, stop) == Min(start, n) + 1 .. Min(stop, n)

SliceMutant(dset, start, stop) ==
    SubSeq(dset, 1, Min(stop, Len(dset)) - Min(start, Len(dset)))

\* dset[start:stop] read
Slice(dset, start, stop) ==
    SubSeq(dset, Min(start, Len(dset)) + 1, Min(stop, Len(dset)))

WriteSliceMutant(dset, start, stop, data) ==
    [i \in 1 .. Len(dset) |->
        IF i \in SliceRows(Len(dset), start, stop) THEN data[i - start]
        ELSE Sentinel]

\* dset[start:stop] = data, data having the rows of the selection
WriteSlice(dset, start, stop, data) ==
    [i \in 1 .. Len(dset) |->
        IF i \in SliceRows(Len(dset), start, stop) THEN data[i - start]
        ELSE dset[i]]

SaveDataMutant(f, p, dset, data, fq, full_trajectory) ==
    IF full_trajectory
    THEN Outcome(Traj(f.groups, PutDataset(f.dsets, p, data)), NoFault)
    ELSE IF fq.end_frame - fq.start_frame # Len(data)
         THEN Outcome(f, "AssertionError")
         ELSE Outcome(Traj(f.groups,
                           PutDataset(f.dsets, p,
                                      WriteSlice(dset, fq.start_frame,
                                                 fq.end_frame, data))),
                      NoFault)

\* save_pixel_flow_trajectory, lines 211-220, on the dataset dset of directory p
SaveData(f, p, dset, data, fq, full_trajectory) ==
    IF full_trajectory
    THEN IF Len(dset) # Len(data)
         THEN Outcome(f, "AssertionError")
         ELSE Outcome(Traj(f.groups, PutDataset(f.dsets, p, data)), NoFault)
    ELSE IF fq.end_frame - fq.start_frame # Len(data)
         THEN Outcome(f, "AssertionError")
         ELSE IF Cardinality(SliceRows(Len(dset), fq.start_frame, fq.end_frame))
                    # Len(data)
              \* the selection was clipped to the dataset: h5py cannot broadcast
              THEN Outcome(f, "TypeError")
              ELSE Outcome(Traj(f.groups,
                                PutDataset(f.dsets, p,
                                           WriteSlice(dset, fq.start_frame,
                                                      fq.end_frame, data))),
                           NoFault)

SaveTrajectoryMutant(f, data, fq, size, full_trajectory) == Outcome(f, NoFault)

\* save_pixel_flow_trajectory, lines 188-220: what it leaves in the container
SaveTrajectory(f, data, fq, size, full_trajectory) ==
    LET p == H5Directory(fq)
        \* line 190: require_group creates the group when it is missing
        g == Traj(f.groups \cup {p}, f.dsets)
    IN IF HasDataset(g, p)
       THEN IF size # None /\ Len(g.dsets[p]) # size[1]
            THEN Outcome(g, "AssertionError")
            ELSE SaveData(g, p, g.dsets[p], data, fq, full_trajectory)
       ELSE IF size = None
            THEN Outcome(g, "AssertionError")
            ELSE SaveData(Traj(g.groups,
                               PutDataset(g.dsets, p, NewDataset(size[1]))),
                          p, NewDataset(size[1]), data, fq, full_trajectory)

\* TrackingData.save_pixel_flow_trajectory
SavePixelFlowTrajectory(s, data, fq, size, full_trajectory) ==
    LET arg == [data |-> data, flow_queue |-> fq, size |-> size,
                full_trajectory |-> full_trajectory]
        out == SaveTrajectory(Traj(groups, dsets), data, fq, size, full_trajectory)
    IN /\ live[s]
       /\ \/ Refused("save_pixel_flow_trajectory", s, arg)
          \/ /\ InsideContext(s)
             /\ groups' = out.groups
             /\ dsets' = out.dsets
             /\ UNCHANGED <<fileExists, table, fileMarker>>
             /\ StoreUnchanged
             /\ last' = Call("save_pixel_flow_trajectory", s, arg, out.fault, <<>>)
             /\ pre' = Snapshot

\* load_pixel_flow_trajectory, lines 229-237: [fault, the array returned]
LoadTrajectory(f, fq, full_trajectory) ==
    LET p == H5Directory(fq)
    IN IF p \notin f.groups \/ ~HasDataset(f, p)
       THEN [fault |-> "KeyError", ret |-> <<>>]
       ELSE IF full_trajectory
            THEN [fault |-> NoFault, ret |-> f.dsets[p]]
            ELSE [fault |-> NoFault,
                  ret |-> Slice(f.dsets[p], fq.start_frame, fq.end_frame)]

\* TrackingData.load_pixel_flow_trajectory
LoadPixelFlowTrajectory(s, fq, full_trajectory) ==
    LET arg == [flow_queue |-> fq, full_trajectory |-> full_trajectory]
        out == LoadTrajectory(Traj(groups, dsets), fq, full_trajectory)
    IN /\ live[s]
       /\ \/ Refused("load_pixel_flow_trajectory", s, arg)
          \/ /\ InsideContext(s)
             /\ StoreUnchanged
             /\ FileUnchanged
             /\ last' = Call("load_pixel_flow_trajectory", s, arg, out.fault, out.ret)
             /\ pre' = Snapshot

MatchesMutant(q, tag, frame) ==
    frame >= q.start_frame /\ frame <= q.end_frame

MatchesTagMutant(q, tag, frame) == GetTag(q) = tag

\* trim_trajectory, line 253
Matches(q, tag, frame) ==
    GetTag(q) = tag /\ frame >= q.start_frame /\ frame <= q.end_frame

TrimmedMutant(trajectory, relative_frame, reverse) ==
    [j \in 1 .. Len(trajectory) |->
        IF reverse
        THEN (IF j <= relative_frame + 1 THEN Sentinel ELSE trajectory[j])
        ELSE (IF j > relative_frame + 1 THEN Sentinel ELSE trajectory[j])]

\* trim_trajectory, lines 261 and 269: trajectory[:relative_frame] = -1 or
\* trajectory[relative_frame:] = -1
Trimmed(trajectory, relative_frame, reverse) ==
    [j \in 1 .. Len(trajectory) |->
        IF reverse
        THEN (IF j <= relative_frame THEN Sentinel ELSE trajectory[j])
        ELSE (IF j > relative_frame THEN Sentinel ELSE trajectory[j])]

RetargetMutant(q, frame, reverse) ==
    IF reverse THEN [q EXCEPT !.end_frame = frame]
    ELSE [q EXCEPT !.start_frame = frame]

RetargetDoneMutant(q, frame, reverse) ==
    IF reverse THEN [q EXCEPT !.start_frame = frame, !.done = FALSE]
    ELSE [q EXCEPT !.end_frame = frame, !.done = FALSE]

\* trim_trajectory, lines 267 and 275
Retarget(q, frame, reverse) ==
    IF reverse THEN [q EXCEPT !.start_frame = frame]
    ELSE [q EXCEPT !.end_frame = frame]

RECURSIVE TrimFrom(_, _, _, _, _, _)
\* trim_trajectory, lines 252-275: the loop from position i on; it has no break,
\* so every matching record is trimmed; a fault of load or save ends the call
\* and keeps what the earlier iterations did
TrimFrom(i, qs, f, tag, frame, reverse) ==
    IF i > Len(qs)
    THEN [queues |-> qs, groups |-> f.groups, dsets |-> f.dsets, fault |-> NoFault]
    ELSE IF ~Matches(qs[i], tag, frame)
    THEN TrimFrom(i + 1, qs, f, tag, frame, reverse)
    ELSE LET q == qs[i]
             loaded == LoadTrajectory(f, q, FALSE)
             saved == SaveTrajectory(
                          f, Trimmed(loaded.ret, frame - q.start_frame, reverse),
                          q, None, FALSE)
         IN IF loaded.fault # NoFault
            THEN [queues |-> qs, groups |-> f.groups, dsets |-> f.dsets,
                  fault |-> loaded.fault]
            ELSE IF saved.fault # NoFault
            THEN [queues |-> qs, groups |-> saved.groups, dsets |-> saved.dsets,
                  fault |-> saved.fault]
            ELSE TrimFrom(i + 1, [qs EXCEPT ![i] = Retarget(q, frame, reverse)],
                          Traj(saved.groups, saved.dsets), tag, frame, reverse)

\* TrackingData.trim_trajectory
TrimTrajectory(s, tag, frame, reverse) ==
    LET arg == [tag |-> tag, frame |-> frame, reverse |-> reverse]
        out == TrimFrom(1, queues[s], Traj(groups, dsets), tag, frame, reverse)
    IN /\ live[s]
       /\ \/ Refused("trim_trajectory", s, arg)
          \/ /\ InsideContext(s)
             /\ queues' = [queues EXCEPT ![s] = out.queues]
             /\ groups' = out.groups
             /\ dsets' = out.dsets
             /\ UNCHANGED <<live, inside, marker, depth, fileExists, table,
                            fileMarker>>
             /\ last' = Call("trim_trajectory", s, arg, out.fault, <<>>)
             /\ pre' = Snapshot

\* ------------------------------------------------------------ __setattr__

\* A Python value: its type t and, by type, the integer n (a bool as 1 or 0),
\* the characters s of a str, or the elements e of a tuple.
IntV(n) == [t |-> "int", n |-> n, s |-> <<>>, e |-> <<>>]

StrV(l) == [t |-> "str", n |-> 0, s |-> l, e |-> <<>>]

BoolV(b) == [t |-> "bool", n |-> IF b THEN 1 ELSE 0, s |-> <<>>, e |-> <<>>]

TupV(elems) == [t |-> "tuple", n |-> 0, s |-> <<>>, e |-> elems]

\* isinstance(value, int): bool is a subclass of int
IsInt(value) == value.t \in {"int", "bool"}

\* the value as the field holds it; in an integer field True and False
\* count as 1 and 0
Held(name, value) ==
    IF name = "point" THEN [i \in 1 .. Len(value.e) |-> value.e[i].n]
    ELSE IF name = "label" THEN value.s
    ELSE IF name = "done" THEN value.n = 1
    ELSE value.n

\* __setattr__, lines 54-76: the fault of the type check, if any
TypeFault(name, value) ==
    IF name = "point"
    THEN IF value.t # "tuple" THEN "TypeError"
         ELSE IF Len(value.e) # 2 THEN "AssertionError"
         ELSE IF \E i \in 1 .. 2 : ~IsInt(value.e[i]) THEN "TypeError"
         ELSE NoFault
    ELSE IF name \in {"start_frame", "end_frame", "camera", "z_index"}
    THEN (IF IsInt(value) THEN NoFault ELSE "TypeError")
    ELSE IF name = "label"
    THEN (IF value.t = "str" THEN NoFault ELSE "TypeError")
    ELSE IF name = "done"
    THEN (IF value.t = "bool" THEN NoFault ELSE "TypeError")
    ELSE NoFault

Assigned(q, name, v) ==
    CASE name = "point" -> [q EXCEPT !.point = v]
      [] name = "start_frame" -> [q EXCEPT !.start_frame = v]
      [] name = "end_frame" -> [q EXCEPT !.end_frame = v]
      [] name = "camera" -> [q EXCEPT !.camera = v]
      [] name = "z_index" -> [q EXCEPT !.z_index = v]
      [] name = "label" -> [q EXCEPT !.label = v]
      [] name = "done" -> [q EXCEPT !.done = v]

SetAttrOfMutant(q, name, value) ==
    IF TypeFault(name, value) # NoFault
    THEN [q |-> q, fault |-> TypeFault(name, value)]
    ELSE IF name \in StaticVariables
    THEN [q |-> q, fault |-> NoFault]
    ELSE [q |-> Assigned(q, name, Held(name, value)), fault |-> NoFault]

\* FlowQueue.__setattr__ on a constructed record (__initialized__ is True):
\* line 77 assigns before lines 78-80 raise
SetAttrOf(q, name, value) ==
    IF TypeFault(name, value) # NoFault
    THEN [q |-> q, fault |-> TypeFault(name, value)]
    ELSE [q |-> Assigned(q, name, Held(name, value)),
          fault |-> IF name \in StaticVariables THEN "AttributeError"
                    ELSE NoFault]

\* an assignment, by the caller, to an attribute of the record at position i
SetAttr(s, i, name, value) ==
    LET out == SetAttrOf(queues[s][i], name, value)
    IN /\ live[s]
       /\ i \in 1 .. Len(queues[s])
       /\ queues' = [queues EXCEPT ![s][i] = out.q]
       /\ UNCHANGED <<live, inside, marker, depth>>
       /\ FileUnchanged
       /\ last' = Call("setattr", s, [i |-> i, name |-> name, value |-> value],
                       out.fault, <<>>)
       /\ pre' = Snapshot

\* ------------------------------------------------------------ inputs

Opt(S) == {None} \cup {Some(v) : v \in S}

\* "z0-m0" and "z0-marker_long"
Tags == {TagOf(0, ShortLabel), TagOf(0, LongLabel)}

\* an array of n rows, no row the sentinel, no two rows alike
DataGen(k, n) == [i \in 1 .. n |-> <<10 * k + i, 20 * k + i>>]

\* the samples a tracker hands over for the span of record q: the row of
\* frame f is (10 + f, 20 + f), no row the sentinel, no two rows alike
Tracked(q) ==
    [i \in 1 .. q.end_frame - q.start_frame |->
        <<10 + q.start_frame + i, 20 + q.start_frame + i>>]

\* --------------------------------------- specification of the lifecycle
\* Store object 1 through its with-blocks, every guarded method with one
\* argument list, records with a short and with an overlong label.

RecLife(label, done) == FlowQueue(<<1, 1>>, 0, MaxFrame, 0, 0, label, done)

RecsLife == {RecLife(l, d) : l \in Labels, d \in BOOLEAN}

Next ==
    \/ Enter(1)
    \/ Exit(1)
    \/ CreateTemplate(1)
    \/ \E r \in RecsLife : AppendQueue(1, r)
    \/ AllDone(1)
    \/ IterCameras(1)
    \/ GetFlowQueues(1, None, None, FALSE, None)
    \/ SavePixelFlowTrajectory(1, DataGen(1, MaxFrame), RecLife(ShortLabel, FALSE),
                               Some(MaxFrame), FALSE)
    \/ LoadPixelFlowTrajectory(1, RecLife(ShortLabel, FALSE), FALSE)
    \/ TrimTrajectory(1, GetTag(RecLife(ShortLabel, FALSE)), 1, FALSE)

Spec == Init /\ [][Next]_vars

\* ------------------------------- specification of two store objects
\* Both store objects on the one container path: with-blocks, initialize,
\* load, and one record to append.

NextScopes ==
    \/ \E s \in Stores : Enter(s)
    \/ \E s \in Stores : Exit(s)
    \/ \E s \in Stores, d \in BOOLEAN : AppendQueue(s, RecLife(ShortLabel, d))
    \/ \E s \in Stores : AllDone(s)
    \/ Load
    \/ \E mp \in Markers : Initialize(mp)

SpecScopes == Init /\ [][NextScopes]_vars

\* ------------------------------- specification of the list and its queries
\* Store object 1 inside its with-block: append, the queries with every
\* combination of filters, and assignments to start_frame and done of a
\* record of the list (which can make two records of the list equal).

RecsQuery ==
    {FlowQueue(<<1, 1>>, 0, MaxFrame, c, 0, ShortLabel, d) :
        c \in Cameras, d \in BOOLEAN}

QueryAssignments ==
    {<<"start_frame", IntV(0)>>, <<"start_frame", IntV(1)>>,
     <<"done", BoolV(TRUE)>>, <<"done", BoolV(FALSE)>>}

NextQuery ==
    \/ Enter(1)
    \/ \E r \in RecsQuery : AppendQueue(1, r)
    \/ \E i \in 1 .. Len(queues[1]), a \in QueryAssignments :
          SetAttr(1, i, a[1], a[2])
    \/ AllDone(1)
    \/ IterCameras(1)
    \/ \E camera \in Opt(Cameras), start_frame \in Opt({1}),
          force_run_all \in BOOLEAN, tag \in Opt(Tags) :
            GetFlowQueues(1, camera, start_frame, force_run_all, tag)

SpecQuery == Init /\ [][NextQuery]_vars

\* ------------------------------- specification of trimming
\* Store object 1: records of one tag on two cameras, with spans that
\* overlap; the trajectory of a record of the list saved over its span;
\* trim_trajectory with every frame, both directions, and a tag that no
\* record has.

RecsTrim ==
    {FlowQueue(<<1, 1>>, s, MaxFrame, c, 0, ShortLabel, FALSE) :
        s \in {0, 1}, c \in Cameras}

NextTrim ==
    \/ Enter(1)
    \/ \E r \in RecsTrim : AppendQueue(1, r)
    \/ \E i \in 1 .. Len(queues[1]) :
          SavePixelFlowTrajectory(1, Tracked(queues[1][i]), queues[1][i],
                                  Some(MaxFrame), FALSE)
    \/ \E tag \in Tags, frame \in Frames, reverse \in BOOLEAN :
          TrimTrajectory(1, tag, frame, reverse)

SpecTrim == Init /\ [][NextTrim]_vars

\* ----------------------------- specification of the trajectories
\* Store object 1 inside its with-block: save and load with records that
\* share a dataset (differing in point, or in span) and one on another
\* camera, arrays of the span's, of the full and of a wrong length, with and
\* without a size.

RecTraj(k, start_frame, camera) ==
    FlowQueue(<<k, k>>, start_frame, MaxFrame, camera, 0, ShortLabel, FALSE)

RecsTraj == {RecTraj(1, 0, 0), RecTraj(1, 1, 0), RecTraj(2, 0, 0), RecTraj(1, 1, 1)}

\* the arrays handed over with record q: of the rows of its span, of the
\* dataset, and one row short of the dataset
DataTraj(q) ==
    {DataGen(q.point[1], n) :
        n \in {q.end_frame - q.start_frame, MaxFrame, MaxFrame - 1}}

SizesTraj == Opt({MaxFrame, MaxFrame - 1})

NextTraj ==
    \/ Enter(1)
    \/ \E q \in RecsTraj, size \in SizesTraj, full_trajectory \in BOOLEAN :
          \E data \in DataTraj(q) :
              SavePixelFlowTrajectory(1, data, q, size, full_trajectory)
    \/ \E q \in RecsTraj, full_trajectory \in BOOLEAN :
          LoadPixelFlowTrajectory(1, q, full_trajectory)

SpecTraj == Init /\ [][NextTraj]_vars

\* ----------------------------- specification of the dataset length
\* Store object 1 inside its with-block, holding one record: saves of the
\* record with and without a size, matching or not, with arrays of the
\* span's, the dataset's and a wrong length, and trims at every frame with
\* the record's tag and with another.

RecsLength == {RecTraj(1, 0, 0), RecTraj(1, 1, 0)}

NextLength ==
    \/ Enter(1)
    \/ \E r \in RecsLength : Len(queues[1]) = 0 /\ AppendQueue(1, r)
    \/ \E i \in 1 .. Len(queues[1]), size \in SizesTraj,
          full_trajectory \in BOOLEAN :
          \E data \in DataTraj(queues[1][i]) :
              SavePixelFlowTrajectory(1, data, queues[1][i], size,
                                      full_trajectory)
    \/ \E tag \in Tags, frame \in Frames, reverse \in BOOLEAN :
          TrimTrajectory(1, tag, frame, reverse)

SpecLength == Init /\ [][NextLength]_vars

\* ------------------- specification of append and trim on an empty store
\* Store object 1 inside its with-block. While the list is empty a trajectory
\* may be saved, so the container may hold one when the list is empty; from
\* there on only append and trim_trajectory are called, with records of one
\* identity and different spans, done or not done; the caller appends while
\* the list holds fewer than two records.

RecSpan(start_frame, end_frame, done) ==
    FlowQueue(<<1, 1>>, start_frame, end_frame, 0, 0, ShortLabel, done)

RecsSpan == {RecSpan(0, MaxFrame, FALSE), RecSpan(0, 1, TRUE),
             RecSpan(1, MaxFrame, FALSE)}

NextSpans ==
    \/ Enter(1)
    \/ /\ Len(queues[1]) = 0
       /\ SavePixelFlowTrajectory(1, Tracked(RecSpan(0, MaxFrame, FALSE)),
                                  RecSpan(0, MaxFrame, FALSE), Some(MaxFrame),
                                  FALSE)
    \/ \E r \in RecsSpan : Len(queues[1]) < 2 /\ AppendQueue(1, r)
    \/ \E tag \in Tags, frame \in Frames, reverse \in BOOLEAN :
          TrimTrajectory(1, tag, frame, reverse)

SpecSpans == Init /\ [][NextSpans]_vars

\* ----------------------------- specification of initialize
\* Store object 1 through its with-blocks with two records to append;
\* initialize with either marker positions, before and after the container
\* exists, and the with-blocks of the store it returns.

RecsInit == {RecLife(ShortLabel, FALSE), RecLife(ShortLabel, TRUE),
             RecTraj(1, 0, 1)}

NextInit ==
    \/ \E s \in Stores : Enter(s)
    \/ \E s \in Stores : Exit(s)
    \/ \E r \in RecsInit : AppendQueue(1, r)
    \/ \E mp \in Markers : Initialize(mp)

SpecInit == Init /\ [][NextInit]_vars

\* ----------------------------- specification of attribute assignment
\* Store object 1 inside its with-block with one record appended; every
\* attribute of the first record is assigned values of every type.

AttrNames == StaticVariables \cup MutableVariables

AttrValues ==
    {IntV(1), BoolV(TRUE), StrV(LongLabel),
     TupV(<<IntV(5), IntV(5)>>), TupV(<<IntV(5)>>),
     TupV(<<IntV(5), StrV(ShortLabel)>>)}

NextAttr ==
    \/ Enter(1)
    \/ AppendQueue(1, RecLife(ShortLabel, FALSE))
    \/ \E name \in AttrNames, value \in AttrValues :
          SetAttr(1, 1, name, value)
    \/ AllDone(1)

SpecAttr == Init /\ [][NextAttr]_vars

\* ------------------------------------------------------------ claims

\* every field of the dataclass, done included
SameFields(a, b) == Eq(a, b) /\ a.done = b.done

Guarded ==
    {"all_done", "iter_cameras", "append", "get_flow_queues",
     "save_pixel_flow_trajectory", "load_pixel_flow_trajectory",
     "trim_trajectory", "create_template"}

\* C2: a guarded method called while the store's flag is down (before the
\* first entry or after an exit) raises the lifecycle fault and leaves the
\* record list, the record table and the trajectory datasets as they were.
C2_OutsideContextFails ==
    (last.op \in Guarded /\ ~pre.inside[last.store]) =>
        /\ last.fault = LifecycleFault
        /\ queues = pre.queues
        /\ table = pre.table
        /\ dsets = pre.dsets
        /\ groups = pre.groups

\* C2 witness: after an exit that flushed a record, with a trajectory stored,
\* trim_trajectory is called and refused.
C2_Witness ==
    /\ last.op = "trim_trajectory"
    /\ last.fault = LifecycleFault
    /\ depth[1] = 0
    /\ Len(queues[1]) > 0
    /\ Len(table) > 0
    /\ table # <<ZeroRow>>
    /\ DOMAIN dsets # {}

\* C3: at no time are two with-blocks open on the one container path, be it
\* on one store object or on two.
C3_SingleScope == depth[1] + depth[2] <= 1

\* C4: exit leaves len(R) rows in list order, the flag down, and a load of
\* the container then yields records equal to R in every field.
C4_FlushLoadRoundTrip ==
    last.op = "exit" =>
        LET R == pre.queues[last.store]
        IN /\ ~inside[last.store]
           /\ Len(table) = Len(R)
           /\ \A i \in 1 .. Len(R) : table[i] = ToRow(R[i])
           /\ Len(LoadQueues(table)) = Len(R)
           /\ \A i \in 1 .. Len(R) : SameFields(LoadQueues(table)[i], R[i])

\* the position of the first record of qs equal to r, 0 when there is none
FirstEqual(qs, r) ==
    IF \E k \in 1 .. Len(qs) : Eq(qs[k], r)
    THEN CHOOSE k \in 1 .. Len(qs) :
            Eq(qs[k], r) /\ \A j \in 1 .. Len(qs) : Eq(qs[j], r) => k <= j
    ELSE 0

\* C1: append(r) with an equal record in the list keeps the length, puts r at
\* the position of the first equal record and changes no other position;
\* with no equal record it adds r at the end and changes no earlier position.
C1_Upsert ==
    (last.op = "append" /\ last.fault = NoFault) =>
        LET Q == pre.queues[last.store]
            R == queues[last.store]
            r == last.arg
            k == FirstEqual(Q, r)
        IN IF k # 0
           THEN /\ Len(R) = Len(Q)
                /\ R[k] = r
                /\ \A j \in 1 .. Len(Q) : j # k => R[j] = Q[j]
           ELSE /\ Len(R) = Len(Q) + 1
                /\ R[Len(R)] = r
                /\ \A j \in 1 .. Len(Q) : R[j] = Q[j]

\* C1 witness: the list held two records equal to r, the first with another
\* done flag; r took the first one's place and the second one stayed.
C1_Witness ==
    /\ last.op = "append"
    /\ last.fault = NoFault
    /\ Len(pre.queues[1]) = 2
    /\ Eq(pre.queues[1][1], last.arg)
    /\ Eq(pre.queues[1][2], last.arg)
    /\ pre.queues[1][1].done # last.arg.done
    /\ pre.queues[1][2].done # last.arg.done
    /\ queues[1] = <<last.arg, pre.queues[1][2]>>

\* C9: get_flow_queues returns, in list order, exactly the records that pass
\* every filter that is not None and that are not done or are asked for with
\* force_run_all; the list and its records are as before the call.
C9_Filter ==
    (last.op = "get_flow_queues" /\ last.fault = NoFault) =>
        LET a == last.arg
            Wanted(q) ==
                /\ a.camera = None \/ q.camera = a.camera[1]
                /\ a.start_frame = None \/ q.start_frame = a.start_frame[1]
                /\ a.tag = None \/ GetTag(q) = a.tag[1]
                /\ ~q.done \/ a.force_run_all
        IN /\ last.ret = SelectSeq(pre.queues[last.store], Wanted)
           /\ queues = pre.queues

\* C9 witness: of two records one is returned, a done one asked for with
\* force_run_all through a camera filter.
C9_Witness ==
    /\ last.op = "get_flow_queues"
    /\ last.fault = NoFault
    /\ last.arg.force_run_all
    /\ last.arg.camera # None
    /\ Len(queues[1]) = 2
    /\ Len(last.ret) = 1
    /\ last.ret[1].done
    /\ last.ret[1] = queues[1][2]

\* C10: all_done is true exactly when the list is empty or every record is
\* done; once append has put a record that is not done in the place of an
\* equal record that was done, all_done is false.
C10_AllDone ==
    /\ (last.op = "all_done" /\ last.fault = NoFault) =>
          (last.ret <=>
              \/ Len(queues[last.store]) = 0
              \/ \A i \in 1 .. Len(queues[last.store]) :
                    queues[last.store][i].done)
    /\ (/\ last.op = "append"
        /\ last.fault = NoFault
        /\ FirstEqual(pre.queues[last.store], last.arg) # 0
        /\ pre.queues[last.store][FirstEqual(pre.queues[last.store],
                                             last.arg)].done
        /\ ~last.arg.done) =>
          ~AllDoneOf(queues[last.store])

\* C10 witness: every record was done, append wrote one back as not done,
\* and all_done is now false.
C10_Witness ==
    /\ last.op = "append"
    /\ last.fault = NoFault
    /\ Len(pre.queues[1]) = 2
    /\ AllDoneOf(pre.queues[1])
    /\ Len(queues[1]) = 2
    /\ ~AllDoneOf(queues[1])

\* the last call was trim_trajectory(tag, frame, reverse), made inside the
\* context, and the record q at position i of the list had the tag, a span
\* holding the frame, and a trajectory with a sample in every row of its span
TrimCase(i, reverse) ==
    /\ last.op = "trim_trajectory"
    /\ last.arg.reverse = reverse
    /\ pre.inside[last.store]
    /\ i \in 1 .. Len(pre.queues[last.store])
    /\ LET q == pre.queues[last.store][i]
           p == H5Directory(q)
       IN /\ GetTag(q) = last.arg.tag
          /\ q.start_frame <= last.arg.frame
          /\ last.arg.frame <= q.end_frame
          /\ p \in pre.groups
          /\ p \in DOMAIN pre.dsets
          /\ q.end_frame <= Len(pre.dsets[p])
          /\ \A j \in q.start_frame + 1 .. q.end_frame :
                pre.dsets[p][j] # Sentinel

\* rows [from, to) of the dataset of directory p hold the sentinel
RowsSentinel(p, from, to) == \A j \in from + 1 .. to : dsets[p][j] = Sentinel

\* rows [from, to) of the dataset of directory p are as before the call
RowsKept(p, from, to) == \A j \in from + 1 .. to : dsets[p][j] = pre.dsets[p][j]

TrimmedForward(i) ==
    LET q == pre.queues[last.store][i]
        r == queues[last.store][i]
        p == H5Directory(q)
    IN /\ p \in DOMAIN dsets
       /\ Len(dsets[p]) = Len(pre.dsets[p])
       /\ RowsSentinel(p, last.arg.frame, q.end_frame)
       /\ RowsKept(p, q.start_frame, last.arg.frame)
       /\ r.end_frame = last.arg.frame
       /\ r.start_frame = q.start_frame

TrimmedBackward(i) ==
    LET q == pre.queues[last.store][i]
        r == queues[last.store][i]
        p == H5Directory(q)
    IN /\ p \in DOMAIN dsets
       /\ Len(dsets[p]) = Len(pre.dsets[p])
       /\ RowsSentinel(p, q.start_frame, last.arg.frame)
       /\ RowsKept(p, last.arg.frame, q.end_frame)
       /\ r.start_frame = last.arg.frame
       /\ r.end_frame = q.end_frame

\* C5 as stated: after trim_trajectory(tag, f, reverse=False), every record
\* that had the tag, a span [s, e) with s <= f <= e and samples in rows [s, e)
\* has rows [f, e) at the sentinel, rows [s, f) as before, end_frame = f and
\* start_frame as before.
C5_TrimForward ==
    \A i \in 1 .. MaxQueue : TrimCase(i, FALSE) => TrimmedForward(i)

\* C5 for calls that return: the same, when the call ends without a fault.
C5_TrimForwardReturned ==
    \A i \in 1 .. MaxQueue :
        (TrimCase(i, FALSE) /\ last.fault = NoFault) => TrimmedForward(i)

\* C5 witness: a forward trim at a frame strictly inside the span of a record
\* with a full trajectory has returned.
C5_Witness ==
    /\ last.fault = NoFault
    /\ \E i \in 1 .. MaxQueue :
          /\ TrimCase(i, FALSE)
          /\ pre.queues[last.store][i].start_frame < last.arg.frame
          /\ last.arg.frame < pre.queues[last.store][i].end_frame
          /\ TrimmedForward(i)

\* C6 as stated: after trim_trajectory(tag, f, reverse=True), every record
\* that had the tag, a span [s, e) with s <= f <= e and samples in rows [s, e)
\* has rows [s, f) at the sentinel, rows [f, e) as before, start_frame = f and
\* end_frame as before.
C6_TrimBackward ==
    \A i \in 1 .. MaxQueue : TrimCase(i, TRUE) => TrimmedBackward(i)

\* C6 for calls that return: the same, when the call ends without a fault.
C6_TrimBackwardReturned ==
    \A i \in 1 .. MaxQueue :
        (TrimCase(i, TRUE) /\ last.fault = NoFault) => TrimmedBackward(i)

\* C6 witness: a backward trim at a frame strictly inside the span of a
\* record with a full trajectory has returned.
C6_Witness ==
    /\ last.fault = NoFault
    /\ \E i \in 1 .. MaxQueue :
          /\ TrimCase(i, TRUE)
          /\ pre.queues[last.store][i].start_frame < last.arg.frame
          /\ last.arg.frame < pre.queues[last.store][i].end_frame
          /\ TrimmedBackward(i)

\* C7: in every state every record of every store holds, in point, camera,
\* z_index and label, the values it was constructed with.
C7_IdentityImmutable ==
    \A s \in Stores : \A i \in 1 .. Len(queues[s]) :
        Identity(queues[s][i]) = queues[s][i].init

\* the last call was an assignment of value to the attribute name of the
\* constructed record q, which is r after the assignment
AssignCase(name, type) ==
    /\ last.op = "setattr"
    /\ last.arg.name = name
    /\ last.arg.value.t = type

AssignedRecord == queues[last.store][last.arg.i]

RecordBefore == pre.queues[last.store][last.arg.i]

\* C8: an assignment to point, camera, z_index or label of a constructed
\* record ends with a fault; an assignment of an int to start_frame or
\* end_frame, or of a bool to done, ends without a fault and the record then
\* holds the value in that field and is otherwise as it was.
C8_Assignment ==
    /\ (last.op = "setattr" /\ last.arg.name \in
            {"point", "camera", "z_index", "label"})
          => last.fault # NoFault
    /\ AssignCase("start_frame", "int")
          => /\ last.fault = NoFault
             /\ AssignedRecord =
                  [RecordBefore EXCEPT !.start_frame = last.arg.value.n]
    /\ AssignCase("end_frame", "int")
          => /\ last.fault = NoFault
             /\ AssignedRecord =
                  [RecordBefore EXCEPT !.end_frame = last.arg.value.n]
    /\ AssignCase("done", "bool")
          => /\ last.fault = NoFault
             /\ AssignedRecord =
                  [RecordBefore EXCEPT !.done = (last.arg.value.n = 1)]

\* C8 witness: an int has been assigned to end_frame, with effect, on a record
\* on which an earlier assignment of an int to camera ended with a fault.
C8_Witness ==
    /\ AssignCase("end_frame", "int")
    /\ last.fault = NoFault
    /\ AssignedRecord.end_frame # RecordBefore.end_frame
    /\ RecordBefore.camera # RecordBefore.init[2]

\* the last call was a save_pixel_flow_trajectory, made inside the context,
\* that returned without a fault
Saved ==
    /\ last.op = "save_pixel_flow_trajectory"
    /\ pre.inside[last.store]
    /\ last.fault = NoFault

\* this step is a load_pixel_flow_trajectory, inside the context, of the
\* record and with the full_trajectory of the save that was the last call
LoadsBack ==
    /\ last'.op = "load_pixel_flow_trajectory"
    /\ inside[last'.store]
    /\ last'.arg.flow_queue = last.arg.flow_queue
    /\ last'.arg.full_trajectory = last.arg.full_trajectory

\* C11: a load_pixel_flow_trajectory that follows a returned
\* save_pixel_flow_trajectory(A, record), with the same record and the same
\* full_trajectory, returns without a fault and returns A; the save has
\* returned only if A had the rows of the span (or, with full_trajectory, of
\* the dataset) and the span lay within the dataset.
C11_TrajectoryRoundTrip ==
    [][(Saved /\ LoadsBack)
          => /\ last'.fault = NoFault
             /\ last'.ret = last.arg.data
             /\ IF last.arg.full_trajectory
                THEN Len(last.arg.data)
                       = Len(dsets[H5Directory(last.arg.flow_queue)])
                ELSE /\ Len(last.arg.data) = last.arg.flow_queue.end_frame
                                             - last.arg.flow_queue.start_frame
                     /\ last.arg.flow_queue.end_frame
                          <= Len(dsets[H5Directory(last.arg.flow_queue)])]_vars

\* C11 witness: a load without full_trajectory has returned the rows of a
\* span that starts after the first row of a dataset, which holds other
\* samples in its first row
C11_Witness ==
    /\ last.op = "load_pixel_flow_trajectory"
    /\ last.fault = NoFault
    /\ ~last.arg.full_trajectory
    /\ last.arg.flow_queue.start_frame > 0
    /\ last.ret = DataGen(last.arg.flow_queue.point[1],
                          last.arg.flow_queue.end_frame
                          - last.arg.flow_queue.start_frame)
    /\ dsets[H5Directory(last.arg.flow_queue)][1] # Sentinel

\* the last call was a save_pixel_flow_trajectory, made inside the context,
\* to a directory that held a dataset
SaveToExisting ==
    /\ last.op = "save_pixel_flow_trajectory"
    /\ pre.inside[last.store]
    /\ H5Directory(last.arg.flow_queue) \in DOMAIN pre.dsets

LengthBefore == Len(pre.dsets[H5Directory(last.arg.flow_queue)])

\* C12: a dataset that exists keeps its length over every call; a save to its
\* directory that passes a size other than its length, or that passes, with
\* full_trajectory, an array of another number of rows, ends with
\* AssertionError and writes no row.
C12_LengthKept ==
    /\ \A p \in DOMAIN pre.dsets :
          /\ p \in DOMAIN dsets
          /\ Len(dsets[p]) = Len(pre.dsets[p])
    /\ (/\ SaveToExisting
        /\ \/ /\ last.arg.size # None
              /\ last.arg.size[1] # LengthBefore
           \/ /\ last.arg.full_trajectory
              /\ Len(last.arg.data) # LengthBefore)
          => /\ last.fault = "AssertionError"
             /\ dsets = pre.dsets

\* C12 witness: a dataset that was created, written and trimmed has refused a
\* full_trajectory save of an array one row short, passed with no size.
C12_Witness ==
    /\ SaveToExisting
    /\ last.arg.size = None
    /\ last.arg.full_trajectory
    /\ Len(last.arg.data) = LengthBefore - 1
    /\ last.fault = "AssertionError"
    /\ \E j \in 1 .. LengthBefore :
          pre.dsets[H5Directory(last.arg.flow_queue)][j] = Sentinel
    /\ \E j \in 1 .. LengthBefore :
          pre.dsets[H5Directory(last.arg.flow_queue)][j] # Sentinel

\* a returned save_pixel_flow_trajectory has its rows in the container when
\* it returns, and the record table is as it was
SavePersisted ==
    Saved =>
        LET q == last.arg.flow_queue
            p == H5Directory(q)
        IN /\ p \in DOMAIN dsets
           /\ IF last.arg.full_trajectory
              THEN dsets[p] = last.arg.data
              ELSE SubSeq(dsets[p], q.start_frame + 1, q.end_frame)
                     = last.arg.data
           /\ table = pre.table

\* a returned trim_trajectory has the sentinel rows of every record it
\* matched in the container when it returns, and the record table is as it was
TrimPersisted ==
    (/\ last.op = "trim_trajectory"
     /\ pre.inside[last.store]
     /\ last.fault = NoFault)
       => /\ table = pre.table
          /\ \A i \in 1 .. Len(pre.queues[last.store]) :
                LET q == pre.queues[last.store][i]
                IN Matches(q, last.arg.tag, last.arg.frame)
                     => IF last.arg.reverse
                        THEN RowsSentinel(H5Directory(q), q.start_frame,
                                          last.arg.frame)
                        ELSE RowsSentinel(H5Directory(q), last.arg.frame,
                                          q.end_frame)

\* C13 as stated: append and trim_trajectory leave the persisted record table
\* alone and, once the container exists, a call that changes the table is a
\* scope exit; a returned save_pixel_flow_trajectory, and the one inside a
\* returned trim_trajectory, has its rows persisted on return, the table
\* still being what it was.
C13_TableOnlyAtExit ==
    /\ last.op \in {"append", "trim_trajectory"} => table = pre.table
    /\ (pre.fileExists /\ table # pre.table) => last.op = "exit"
    /\ SavePersisted
    /\ TrimPersisted

\* C13 amended: the same, where a call that changes the table of an existing
\* container is a scope exit or a create_template.
C13_TableAtExitOrTemplate ==
    /\ last.op \in {"append", "trim_trajectory"} => table = pre.table
    /\ (pre.fileExists /\ table # pre.table)
          => last.op \in {"exit", "create_template"}
    /\ SavePersisted
    /\ TrimPersisted

\* C13 witness: inside a scope entered after a flush, a trim has returned; the
\* dataset has new sentinel rows, the record's span has changed, and the
\* table is still the one flushed, with the span as it was.
C13_Witness ==
    /\ last.op = "trim_trajectory"
    /\ last.fault = NoFault
    /\ inside[last.store]
    /\ dsets # pre.dsets
    /\ Len(table) > 0
    /\ table = Flush(pre.queues[last.store])
    /\ table # Flush(queues[last.store])

\* the last call was a trim_trajectory, made inside the context, and no
\* record of the list had both the tag and a span holding the frame
TrimWithoutMatch ==
    /\ last.op = "trim_trajectory"
    /\ pre.inside[last.store]
    /\ \A i \in 1 .. Len(pre.queues[last.store]) :
          LET q == pre.queues[last.store][i]
          IN ~(/\ GetTag(q) = last.arg.tag
               /\ q.start_frame <= last.arg.frame
               /\ last.arg.frame <= q.end_frame)

\* C14: a trim_trajectory that finds no record with the tag and a span
\* holding the frame returns without a fault and leaves the list, every
\* record in it and the container as they were.
C14_NoMatchNoEffect ==
    TrimWithoutMatch
       => /\ last.fault = NoFault
          /\ queues = pre.queues
          /\ dsets = pre.dsets
          /\ groups = pre.groups
          /\ table = pre.table

\* C14 witness: a trim has returned that found the tag on a record with a
\* trajectory, the frame lying before the record's span.
C14_Witness ==
    /\ TrimWithoutMatch
    /\ last.fault = NoFault
    /\ Len(queues[last.store]) > 0
    /\ GetTag(queues[last.store][1]) = last.arg.tag
    /\ last.arg.frame < queues[last.store][1].start_frame
    /\ H5Directory(queues[last.store][1]) \in DOMAIN dsets

\* records over which directories and tags are compared: both points, both
\* spans, cameras and z-indices of one and of two digits, both labels
RecsPath ==
    {FlowQueue(<<k, k>>, s, MaxFrame, c, z, l, FALSE) :
        k \in {1, 2}, s \in {0, 1}, c \in {0, 1, 10}, z \in {0, 1, 10},
        l \in Labels}

SameDirectoryFields(a, b) ==
    a.camera = b.camera /\ a.z_index = b.z_index /\ a.label = b.label

\* C15: a record has the directory of the record of a save exactly when the
\* two agree on camera, z_index and label, and has its tag whenever they
\* agree on z_index and label; a returned full_trajectory save leaves in the
\* one dataset of that directory the array it was given and nothing of what
\* a record with another point saved there before, and creates no other
\* dataset.
C15_SharedDataset ==
    last.op = "save_pixel_flow_trajectory" =>
        LET q == last.arg.flow_queue
            p == H5Directory(q)
        IN /\ \A b \in RecsPath :
                 /\ H5Directory(b) = p <=> SameDirectoryFields(b, q)
                 /\ (b.z_index = q.z_index /\ b.label = q.label)
                       => GetTag(b) = GetTag(q)
           /\ (Saved /\ last.arg.full_trajectory)
                 => /\ dsets[p] = last.arg.data
                    /\ DOMAIN dsets = DOMAIN pre.dsets \cup {p}

\* C15 witness: the dataset held the array saved with the record of point
\* (1, 1); a full_trajectory save with the record of point (2, 2), the same in
\* every other field, has returned, and the one dataset holds its array.
C15_Witness ==
    /\ Saved
    /\ last.arg.full_trajectory
    /\ last.arg.flow_queue = RecTraj(2, 0, 0)
    /\ H5Directory(RecTraj(1, 0, 0)) \in DOMAIN pre.dsets
    /\ pre.dsets[H5Directory(RecTraj(1, 0, 0))] = DataGen(1, MaxFrame)
    /\ DOMAIN dsets = {H5Directory(RecTraj(1, 0, 0))}
    /\ dsets[H5Directory(RecTraj(1, 0, 0))] = DataGen(2, MaxFrame)

\* the record at position i of the list had the tag and a span holding the
\* frame when the last call, a trim_trajectory inside the context, began
MatchedAt(i) ==
    /\ last.op = "trim_trajectory"
    /\ pre.inside[last.store]
    /\ i \in 1 .. Len(pre.queues[last.store])
    /\ GetTag(pre.queues[last.store][i]) = last.arg.tag
    /\ pre.queues[last.store][i].start_frame <= last.arg.frame
    /\ last.arg.frame <= pre.queues[last.store][i].end_frame

\* C16: trim_trajectory changes the first record that has the tag and a span
\* holding the frame and no other: a record at a later position is as it
\* was, and so is its dataset when it is not the dataset of the first.
C16_OnlyFirstTrimmed ==
    \A i \in 1 .. MaxQueue, j \in 1 .. MaxQueue :
        (MatchedAt(i) /\ MatchedAt(j) /\ i < j)
           => /\ queues[last.store][j] = pre.queues[last.store][j]
              /\ LET pi == H5Directory(pre.queues[last.store][i])
                     pj == H5Directory(pre.queues[last.store][j])
                 IN (pj # pi /\ pj \in DOMAIN pre.dsets)
                       => dsets[pj] = pre.dsets[pj]

\* C17: no two positions of the list of a store hold records that are equal
\* under the record equality.
C17_NoEqualRecords ==
    \A s \in Stores :
        \A i \in 1 .. Len(queues[s]), j \in 1 .. Len(queues[s]) :
            i # j => ~Eq(queues[s][i], queues[s][j])

\* C18: every record of every list has start_frame <= end_frame, the records
\* appended having been constructed so.
C18_SpanOrdered ==
    \A s \in Stores : \A i \in 1 .. Len(queues[s]) :
        queues[s][i].start_frame <= queues[s][i].end_frame

\* C18 witness: a reverse trim at the end_frame of a record with a longer
\* span has returned and left the record with start_frame = end_frame.
C18_Witness ==
    /\ last.op = "trim_trajectory"
    /\ last.fault = NoFault
    /\ last.arg.reverse
    /\ \E i \in 1 .. Len(queues[last.store]) :
          /\ pre.queues[last.store][i].start_frame
               < pre.queues[last.store][i].end_frame
          /\ queues[last.store][i].start_frame = last.arg.frame
          /\ queues[last.store][i].end_frame = last.arg.frame

DatasetCreatedBySlice ==
    /\ Saved
    /\ ~last.arg.full_trajectory
    /\ last.arg.flow_queue.start_frame > 0
    /\ H5Directory(last.arg.flow_queue) \notin DOMAIN pre.dsets
    /\ dsets[H5Directory(last.arg.flow_queue)][1] = Sentinel

\* row j of the dataset of directory p lay in the span the call found on a
\* record that it matched
InMatchedSpan(p, j) ==
    \E i \in 1 .. MaxQueue :
        /\ MatchedAt(i)
        /\ H5Directory(pre.queues[last.store][i]) = p
        /\ pre.queues[last.store][i].start_frame < j
        /\ j <= pre.queues[last.store][i].end_frame

\* C20: a trim_trajectory, however it ends, leaves the list at its length and
\* every position with its record, of which only start_frame and end_frame
\* may differ; it creates and removes no dataset, keeps every dataset's
\* length, and changes a row only inside the span that a matched record had
\* when the call began.
C20_TrimFrame ==
    last.op = "trim_trajectory" =>
        /\ Len(queues[last.store]) = Len(pre.queues[last.store])
        /\ \A i \in 1 .. Len(pre.queues[last.store]) :
              queues[last.store][i] =
                 [pre.queues[last.store][i] EXCEPT
                     !.start_frame = queues[last.store][i].start_frame,
                     !.end_frame = queues[last.store][i].end_frame]
        /\ DOMAIN dsets = DOMAIN pre.dsets
        /\ \A p \in DOMAIN pre.dsets :
              /\ Len(dsets[p]) = Len(pre.dsets[p])
              /\ \A j \in 1 .. Len(pre.dsets[p]) :
                    dsets[p][j] # pre.dsets[p][j] => InMatchedSpan(p, j)

\* C20 witness: a trim has returned that matched a record which is done,
\* wrote the sentinel into its span and left a sample in a row outside it.
C20_Witness ==
    /\ last.op = "trim_trajectory"
    /\ last.fault = NoFault
    /\ dsets # pre.dsets
    /\ \E i \in 1 .. Len(queues[last.store]) :
          LET q == pre.queues[last.store][i]
          IN /\ MatchedAt(i)
             /\ q.done
             /\ queues[last.store][i].done
             /\ queues[last.store][i] # q
             /\ \E j \in (1 .. Len(dsets[H5Directory(q)]))
                          \ (q.start_frame + 1 .. q.end_frame) :
                   dsets[H5Directory(q)][j] # Sentinel

\* C21: a save_pixel_flow_trajectory that ends with AssertionError (no size
\* for a new dataset, a size other than the existing length, an array that
\* does not fit the dataset or the span) leaves the groups and the datasets of
\* the container as they were.
C21_FailedSaveNoEffect ==
    (/\ last.op = "save_pixel_flow_trajectory"
     /\ pre.inside[last.store]
     /\ last.fault = "AssertionError")
       => /\ groups = pre.groups
          /\ dsets = pre.dsets

\* the records the callers of the two store objects append
AppendedScopes == {RecLife(ShortLabel, d) : d \in BOOLEAN}

\* C22: every row of the persisted record table is the row of a record that
\* a caller appended, and load and initialize return only such records.
C22_TableRowsWereAppended ==
    /\ \A i \in 1 .. Len(table) :
          \E r \in AppendedScopes : table[i] = ToRow(r)
    /\ last.op \in {"load", "initialize"}
          => \A i \in 1 .. Len(last.ret) :
                \E r \in AppendedScopes : SameFields(last.ret[i], r)

\* C23: initialize(path, marker_positions) on an existing container returns
\* a store (object 2) whose list has one record per row of the record table,
\* in row order, and whose marker positions are the persisted ones; with no
\* container it returns a store with an empty list and the marker positions
\* passed in, and there still is no container. The returned store is outside
\* its context and the container is as it was.
C23_Initialize ==
    last.op = "initialize" =>
        /\ live[2]
        /\ ~inside[2]
        /\ fileExists = pre.fileExists
        /\ table = pre.table
        /\ fileMarker = pre.fileMarker
        /\ dsets = pre.dsets
        /\ IF pre.fileExists
           THEN /\ Len(queues[2]) = Len(table)
                /\ \A i \in 1 .. Len(table) : ToRow(queues[2][i]) = table[i]
                /\ Some(marker[2]) = fileMarker
           ELSE /\ queues[2] = <<>>
                /\ marker[2] = last.arg

\* C23 witness: initialize was given marker positions other than the
\* persisted ones on a container whose table holds two rows, and has
\* returned a store with two records and the persisted marker positions.
C23_Witness ==
    /\ last.op = "initialize"
    /\ pre.fileExists
    /\ Some(last.arg) # fileMarker
    /\ marker[2] # last.arg
    /\ Len(queues[2]) = 2
    /\ queues[2][1] # queues[2][2]

\* the other case of C23, reached as well: initialize on a path with no
\* container, and afterwards the first entry of the returned store creates it
\* with the marker positions passed in
CreatedAtFirstEntry ==
    /\ last.op = "enter"
    /\ last.store = 2
    /\ ~pre.fileExists
    /\ fileExists
    /\ fileMarker = Some("mpB")

====
